---- MODULE Spec2Model ----
(***************************************************************************)
(* State-machine model of src/bot.py: the users table, the three commands  *)
(* that change or read it (add_user, remove_user, list_users) and the      *)
(* periodic poll_job, split at its await points (SELECT, fetch, send,      *)
(* UPDATE) so that commands interleave with a pass exactly where the event *)
(* loop lets them.  run_repeating (bot.py:180) starts one pass at a time.  *)
(***************************************************************************)
EXTENDS Integers, Sequences, FiniteSets, TLC

\* Largest activity timestamp the external source hands out.
MaxTs == 2

\* Telegram user ids (users.telegram_id) and LeetCode account names.
Owners == {"U1", "U2"}
Names == {"alice", "bob"}

GROUP_CHAT_ID == "GROUP_CHAT_ID"

\* A missing row of the users table.
NoRow == [leetcode_username |-> "", last_timestamp |-> -1]

\* The catalogue of problems a submission can be about.
Problems ==
    << [title |-> "Two Sum", titleSlug |-> "two-sum",
        statusDisplay |-> "Accepted", lang |-> "python3"],
       [title |-> "Add Two Numbers", titleSlug |-> "add-two-numbers",
        statusDisplay |-> "Wrong Answer", lang |-> "cpp"] >>

\* One element of recentSubmissionList (the five fields the query asks for):
\* the submission made at time t, with raw as its "timestamp" entry: absent,
\* a string that is no integer literal, or the decimal string of v.
Submission(t, raw) ==
    LET p == Problems[(t % 2) + 1]
    IN  [timestamp |-> raw, title |-> p.title, titleSlug |-> p.titleSlug,
         statusDisplay |-> p.statusDisplay, lang |-> p.lang]

\* What a request to leetcode.com/graphql can come back with: the record, an
\* error (timeout, bad status, bad JSON), or a record whose timestamp entry
\* is missing or is no integer literal.
Responses == {"ok", "error", "no_timestamp", "bad_timestamp"}

VARIABLES
    users,        \* the users table: telegram_id -> row, or NoRow
    ext,          \* LeetCode: account name -> the time of its most recent
                  \* submission (0: it has none)
    pc,           \* poll_job's position: idle, fetch, send, update
    rows,         \* poll_job's `for record in rows`: the records of the
                  \* snapshot from the current one on (<<>>: no pass)
    submissions,  \* poll_job's local `submissions` (result of the last fetch)
    outbox,       \* send_message calls made by the current or last pass
    raised,       \* the exception that ended the last pass, or "none"
    sent,         \* history: owner -> timestamps announced since its row exists
    lost,         \* history: owner -> announced timestamps whose last UPDATE
                  \* raised
    seen,         \* history: owner -> a pass has observed a record of the
                  \* account its row names
    cur,          \* history: how the current (or last) pass went so far
    prev,         \* history: how the pass before it went
    watch         \* history: which of the histories above is being kept

vars == <<users, ext, pc, rows, submissions, outbox, raised,
          sent, lost, seen, cur, prev, watch>>

----------------------------------------------------------------------------
\* Pure parts of the program.

\* int(latest.get("timestamp", 0)): raises on a non-integer string.
CanParse(raw) == raw.k # "junk"

IntOf(raw) == IF raw.k = "str" THEN raw.v ELSE 0

\* The f-string of poll_job, as the sequence of its pieces.
Message(username, latest) ==
    << username, " just submitted:\n", latest.title, " (",
       latest.statusDisplay, ", ", latest.lang, ")\n",
       "https://leetcode.com/problems/", latest.titleSlug, "/" >>

\* get_recent_submission: the list of the account's most recent submission,
\* or [] when the request fails or the account has none.
GetRecentSubmission(username, response) ==
    LET t == ext[username]
    IN  IF response = "error" \/ t = 0 THEN <<>>
        ELSE IF response = "no_timestamp"
             THEN <<Submission(t, [k |-> "absent", v |-> 0])>>
        ELSE IF response = "bad_timestamp"
             THEN <<Submission(t, [k |-> "junk", v |-> 0])>>
        ELSE <<Submission(t, [k |-> "str", v |-> t])>>

\* if latest_ts > last_ts
IsNewAnyInequality(latest_ts, last_ts) == latest_ts # last_ts

IsNewOrEqual(latest_ts, last_ts) == latest_ts >= last_ts

IsNew(latest_ts, last_ts) == latest_ts > last_ts

\* if last_ts != 0
ShouldNotifyAlways(last_ts) == TRUE

ShouldNotify(last_ts) == last_ts # 0

Registered == {o \in Owners : users[o] # NoRow}

\* SELECT telegram_id, leetcode_username, last_timestamp FROM users
SelectAll ==
    {[telegram_id |-> o, leetcode_username |-> users[o].leetcode_username,
      last_timestamp |-> users[o].last_timestamp] : o \in Registered}

\* The orders in which the SELECT (it has no ORDER BY) can return a set.
Orders(S) ==
    {s \in [1..Cardinality(S) -> S] :
        \A a, b \in 1..Cardinality(S) : a # b => s[a] # s[b]}

\* INSERT ... ON CONFLICT (telegram_id) DO UPDATE SET leetcode_username
UpsertReplacing(telegram_id, leetcode_username) ==
    [users EXCEPT ![telegram_id] =
        [leetcode_username |-> leetcode_username, last_timestamp |-> 0]]

Upsert(telegram_id, leetcode_username) ==
    IF users[telegram_id] = NoRow
    THEN [users EXCEPT ![telegram_id] =
            [leetcode_username |-> leetcode_username, last_timestamp |-> 0]]
    ELSE [users EXCEPT ![telegram_id].leetcode_username = leetcode_username]

\* UPDATE users SET last_timestamp=$1 WHERE telegram_id=$2
UpdateTimestampEveryRow(latest_ts, telegram_id) ==
    [o \in Owners |->
        IF users[o] = NoRow THEN NoRow
        ELSE [users[o] EXCEPT !.last_timestamp = latest_ts]]

UpdateTimestampUpserting(latest_ts, telegram_id) ==
    [users EXCEPT ![telegram_id] =
        [leetcode_username |-> rows[1].leetcode_username,
         last_timestamp |-> latest_ts]]

UpdateTimestampDropped(latest_ts, telegram_id) == users

UpdateTimestamp(latest_ts, telegram_id) ==
    IF users[telegram_id] = NoRow
    THEN users
    ELSE [users EXCEPT ![telegram_id].last_timestamp = latest_ts]

\* ORDER BY leetcode_username of list_users, over the names in the table.
ListedNames == {users[o].leetcode_username : o \in Registered}

----------------------------------------------------------------------------
\* History variables: they record what happened and never steer the program.
\* A behaviour keeps one group of them (watch), or none.

Watches == {"none", "once", "first", "calm"}

NoOwners == [o \in Owners |-> FALSE]

Keep(w, new, old) == IF watch = w THEN new ELSE old

\* A command ran or LeetCode changed: neither pass is undisturbed any more.
Disturbed ==
    /\ cur' = Keep("calm", "x", cur)
    /\ prev' = Keep("calm", "x", prev)

----------------------------------------------------------------------------
\* The state after setup_database on an empty table.

InitWatching(w) ==
    /\ users = [o \in Owners |-> NoRow]
    /\ ext = [n \in Names |-> 0]
    /\ pc = "idle"
    /\ rows = <<>>
    /\ submissions = <<>>
    /\ outbox = <<>>
    /\ raised = "none"
    /\ sent = [o \in Owners |-> {}]
    /\ lost = [o \in Owners |-> {}]
    /\ seen = NoOwners
    /\ cur = "x"
    /\ prev = "x"
    /\ watch = w

Init == InitWatching("none")

----------------------------------------------------------------------------
\* The environment: an account's most recent submission changes.

Publish(n, t) ==
    /\ t # ext[n]
    /\ ext' = [ext EXCEPT ![n] = t]
    /\ Disturbed
    /\ UNCHANGED <<users, pc, rows, submissions, outbox, raised,
                   sent, lost, seen, watch>>

----------------------------------------------------------------------------
\* The commands.  context.args is the whitespace-split rest of the message,
\* so strip() finds nothing to remove from its tokens.

ArgLists ==
    {<<>>} \cup {<<n>> : n \in Names} \cup {<<n, n>> : n \in Names}

\* add_user, lines 83-100: one usage reply, or one upsert.
AddUser(o, args) ==
    /\ IF Len(args) # 1
       THEN UNCHANGED <<users, sent, lost, seen>>
       ELSE LET leetcode_username == args[1]
                created == users[o] = NoRow
                renamed == ~created
                           /\ users[o].leetcode_username # leetcode_username
            IN  /\ users' = Upsert(o, leetcode_username)
                /\ sent' = IF created THEN [sent EXCEPT ![o] = {}] ELSE sent
                /\ lost' = IF created THEN [lost EXCEPT ![o] = {}] ELSE lost
                /\ seen' = IF created \/ renamed
                           THEN [seen EXCEPT ![o] = FALSE] ELSE seen
    /\ Disturbed
    /\ UNCHANGED <<ext, pc, rows, submissions, outbox, raised, watch>>

\* remove_user, lines 102-106.
RemoveUser(o) ==
    /\ users' = [users EXCEPT ![o] = NoRow]
    /\ sent' = [sent EXCEPT ![o] = {}]
    /\ lost' = [lost EXCEPT ![o] = {}]
    /\ seen' = [seen EXCEPT ![o] = FALSE]
    /\ Disturbed
    /\ UNCHANGED <<ext, pc, rows, submissions, outbox, raised, watch>>

\* list_users, lines 108-116: reads the table and replies.
ListUsers ==
    /\ ListedNames \subseteq Names
    /\ Disturbed
    /\ UNCHANGED <<users, ext, pc, rows, submissions, outbox, raised,
                   sent, lost, seen, watch>>

----------------------------------------------------------------------------
\* poll_job, lines 120-154, one action per await.

\* return from poll_job, normally or by the exception r.
EndPass(r) ==
    /\ pc' = "idle"
    /\ rows' = <<>>
    /\ raised' = r

\* `continue`, or the end of the loop body: the next record, if any.
NextRecord ==
    IF Len(rows) > 1
    THEN /\ pc' = "fetch"
         /\ rows' = Tail(rows)
         /\ UNCHANGED raised
    ELSE EndPass("none")

\* Lines 121-125: the SELECT, and the first record of the loop.
PollStart ==
    /\ pc = "idle"
    /\ \E order \in Orders(SelectAll) :
         /\ rows' = order
         /\ pc' = IF order = <<>> THEN "idle" ELSE "fetch"
    /\ submissions' = <<>>
    /\ outbox' = <<>>
    /\ raised' = "none"
    /\ prev' = Keep("calm", cur, prev)
    /\ cur' = Keep("calm", "c", cur)
    /\ UNCHANGED <<users, ext, sent, lost, seen, watch>>

\* Lines 121-123 when acquiring the connection or the SELECT raises.
PollSelectErrorGoesOn ==
    /\ pc = "idle"
    /\ raised' = "select"
    /\ \E order \in Orders(SelectAll) :
         /\ rows' = order
         /\ pc' = IF order = <<>> THEN "idle" ELSE "fetch"
    /\ submissions' = <<>>
    /\ outbox' = <<>>
    /\ Disturbed
    /\ UNCHANGED <<users, ext, sent, lost, seen, watch>>

PollSelectError ==
    /\ pc = "idle"
    /\ raised' = "select"
    /\ submissions' = <<>>
    /\ outbox' = <<>>
    /\ Disturbed
    /\ UNCHANGED <<users, ext, pc, rows, sent, lost, seen, watch>>

\* Lines 129-146, after the fetch returned result: the decision.
DecideReturnOnEmpty(record, result) ==
    IF result = <<>>
    THEN EndPass("none")
    ELSE IF ~CanParse(result[1].timestamp)
         THEN EndPass("int")
         ELSE IF IsNew(IntOf(result[1].timestamp), record.last_timestamp)
              THEN /\ pc' = IF ShouldNotify(record.last_timestamp)
                            THEN "send" ELSE "update"
                   /\ UNCHANGED <<rows, raised>>
              ELSE NextRecord

DecideEmptyAsNew(record, result) ==
    IF result = <<>>
    THEN /\ pc' = "update"
         /\ UNCHANGED <<rows, raised>>
    ELSE IF ~CanParse(result[1].timestamp)
         THEN EndPass("int")
         ELSE IF IsNew(IntOf(result[1].timestamp), record.last_timestamp)
              THEN /\ pc' = IF ShouldNotify(record.last_timestamp)
                            THEN "send" ELSE "update"
                   /\ UNCHANGED <<rows, raised>>
              ELSE NextRecord

DecideWithoutSend(record, result) ==
    IF result = <<>>
    THEN NextRecord
    ELSE IF ~CanParse(result[1].timestamp)
         THEN EndPass("int")
         ELSE IF IsNew(IntOf(result[1].timestamp), record.last_timestamp)
              THEN /\ pc' = "update"
                   /\ UNCHANGED <<rows, raised>>
              ELSE NextRecord

Decide(record, result) ==
    IF result = <<>>
    THEN NextRecord
    ELSE IF ~CanParse(result[1].timestamp)
         THEN EndPass("int")
         ELSE IF IsNew(IntOf(result[1].timestamp), record.last_timestamp)
              THEN /\ pc' = IF ShouldNotify(record.last_timestamp)
                            THEN "send" ELSE "update"
                   /\ UNCHANGED <<rows, raised>>
              ELSE NextRecord

\* Lines 127-146: the fetch of the record's account and the decision.
PollFetch(response) ==
    /\ pc = "fetch"
    /\ LET record == rows[1]
           result == GetRecentSubmission(record.leetcode_username, response)
           telegram_id == record.telegram_id
           failed == response # "ok" /\ ext[record.leetcode_username] # 0
       IN  /\ submissions' = result
           /\ Decide(record, result)
           /\ seen' = IF /\ result # <<>>
                         /\ users[telegram_id].leetcode_username
                                = record.leetcode_username
                      THEN Keep("first", [seen EXCEPT ![telegram_id] = TRUE],
                                seen)
                      ELSE seen
           /\ cur' = IF raised' # "none" \/ (failed /\ cur # "x")
                     THEN Keep("calm", IF raised' # "none" THEN "x" ELSE "f",
                               cur)
                     ELSE cur
    /\ UNCHANGED <<users, ext, outbox, sent, lost, prev, watch>>

\* Lines 142-150: the message is built and sent; a send error is printed.
PollSendSkipsUpdate(delivered) ==
    /\ pc = "send"
    /\ LET record == rows[1]
           latest == submissions[1]
           latest_ts == IntOf(latest.timestamp)
           msg == Message(record.leetcode_username, latest)
       IN  /\ outbox' = Append(outbox, [chat_id |-> GROUP_CHAT_ID,
                                        text |-> msg, ok |-> delivered])
           /\ sent' = Keep("once", [sent EXCEPT ![record.telegram_id] =
                                        @ \cup {latest_ts}], sent)
    /\ IF delivered
       THEN pc' = "update" /\ UNCHANGED <<rows, raised>>
       ELSE NextRecord
    /\ cur' = IF ~delivered /\ cur = "c" THEN Keep("calm", "d", cur) ELSE cur
    /\ UNCHANGED <<users, ext, submissions, lost, seen, prev, watch>>

PollSend(delivered) ==
    /\ pc = "send"
    /\ LET record == rows[1]
           latest == submissions[1]
           latest_ts == IntOf(latest.timestamp)
           msg == Message(record.leetcode_username, latest)
       IN  /\ outbox' = Append(outbox, [chat_id |-> GROUP_CHAT_ID,
                                        text |-> msg, ok |-> delivered])
           /\ sent' = Keep("once", [sent EXCEPT ![record.telegram_id] =
                                        @ \cup {latest_ts}], sent)
    /\ pc' = "update"
    /\ cur' = IF ~delivered /\ cur = "c" THEN Keep("calm", "d", cur) ELSE cur
    /\ UNCHANGED <<users, ext, rows, submissions, raised, lost, seen,
                   prev, watch>>

\* Lines 153-154: the UPDATE of the record's row, then the next record.
PollUpdate ==
    /\ pc = "update"
    /\ LET record == rows[1]
           latest_ts == IntOf(submissions[1].timestamp)
           telegram_id == record.telegram_id
       IN  /\ users' = UpdateTimestamp(latest_ts, telegram_id)
           /\ lost' = Keep("once", [lost EXCEPT ![telegram_id] =
                                        @ \ {latest_ts}], lost)
    /\ NextRecord
    /\ UNCHANGED <<ext, submissions, outbox, sent, seen, cur, prev, watch>>

\* Lines 153-154 when acquiring the connection or the UPDATE raises.
PollUpdateError ==
    /\ pc = "update"
    /\ LET record == rows[1]
           latest_ts == IntOf(submissions[1].timestamp)
           telegram_id == record.telegram_id
       IN  lost' = IF ShouldNotify(record.last_timestamp)
                   THEN Keep("once", [lost EXCEPT ![telegram_id] =
                                          @ \cup {latest_ts}], lost)
                   ELSE lost
    /\ EndPass("update")
    /\ cur' = Keep("calm", "x", cur)
    /\ UNCHANGED <<users, ext, submissions, outbox, sent, seen, prev, watch>>

----------------------------------------------------------------------------

Next ==
    \/ \E n \in Names, t \in 0..MaxTs : Publish(n, t)
    \/ \E o \in Owners, args \in ArgLists : AddUser(o, args)
    \/ \E o \in Owners : RemoveUser(o)
    \/ ListUsers
    \/ PollStart
    \/ PollSelectError
    \/ \E response \in Responses : PollFetch(response)
    \/ \E delivered \in BOOLEAN : PollSend(delivered)
    \/ PollUpdate
    \/ PollUpdateError

Spec == Init /\ [][Next]_vars

SpecOnce == InitWatching("once") /\ [][Next]_vars

SpecFirst == InitWatching("first") /\ [][Next]_vars

SpecCalm == InitWatching("calm") /\ [][Next]_vars

----------------------------------------------------------------------------
\* Steps of poll_job, recognised by the part of the state only they change.

FetchStep == pc = "fetch" /\ <<pc, rows>>' # <<pc, rows>>

SendStep == pc = "send" /\ <<pc, rows>>' # <<pc, rows>>

UpdateStep == pc = "update" /\ <<pc, rows>>' # <<pc, rows>>

\* The fetch of this step returned a record whose timestamp parses.
Fetched == submissions' # <<>> /\ CanParse(submissions'[1].timestamp)

FetchedTs == IntOf(submissions'[1].timestamp)

\* The table after last_timestamp of owner o's row, if any, is set to t.
Advanced(o, t) ==
    [u \in Owners |->
        IF u = o /\ users[u] # NoRow
        THEN [leetcode_username |-> users[u].leetcode_username,
              last_timestamp |-> t]
        ELSE users[u]]

\* The text poll_job sends about the record s of account name.
Announcement(name, s) ==
    << name, " just submitted:\n", s.title, " (", s.statusDisplay, ", ",
       s.lang, ")\n", "https://leetcode.com/problems/", s.titleSlug, "/" >>

----------------------------------------------------------------------------
\* C1 (bootstrap law): when the record of the pass has last_timestamp 0 and
\* the fetch returns a timestamp T > 0, poll_job sends nothing and goes
\* straight to the UPDATE, which sets the owner's last_timestamp to T.
BootstrapLaw ==
    [][ /\ (FetchStep /\ rows[1].last_timestamp = 0 /\ Fetched
              /\ FetchedTs > 0)
           => /\ pc' = "update"
              /\ rows' = rows
              /\ outbox' = outbox
              /\ users' = users
        /\ (UpdateStep /\ rows[1].last_timestamp = 0 /\ raised' = "none")
           => /\ outbox' = outbox
              /\ users' = Advanced(rows[1].telegram_id,
                                   IntOf(submissions[1].timestamp))
      ]_vars

BootstrapWitness ==
    /\ pc = "update"
    /\ rows[1].last_timestamp = 0
    /\ users[rows[1].telegram_id] # NoRow
    /\ IntOf(submissions[1].timestamp) > 0
    /\ outbox = <<>>

\* C2 as stated (notify law for any inequality): a record with last_timestamp
\* T > 0 and a fetched timestamp T' # T, T' > 0 leads to a notification.
NotifyLawAnyInequality ==
    [][ (FetchStep /\ rows[1].last_timestamp > 0 /\ Fetched
           /\ FetchedTs > 0 /\ FetchedTs # rows[1].last_timestamp)
        => pc' = "send" ]_vars

\* C2 amended (notify law): with last_timestamp T > 0, a fetched T' > T
\* leads to exactly one send_message whose text is built from the account
\* name and the new record's title, status, language and slug, and then to
\* the UPDATE that sets last_timestamp to T'; a fetched T' < T leads to no
\* notification and no write.
NotifyLaw ==
    [][ /\ (FetchStep /\ rows[1].last_timestamp > 0 /\ Fetched
              /\ FetchedTs > rows[1].last_timestamp)
           => /\ pc' = "send"
              /\ rows' = rows
              /\ outbox' = outbox
              /\ users' = users
        /\ (FetchStep /\ rows[1].last_timestamp > 0 /\ Fetched
              /\ FetchedTs < rows[1].last_timestamp)
           => /\ pc' \notin {"send", "update"}
              /\ raised' = "none"
              /\ outbox' = outbox
              /\ users' = users
        /\ SendStep
           => /\ pc' = "update"
              /\ rows' = rows
              /\ submissions' = submissions
              /\ users' = users
              /\ \E ok \in BOOLEAN :
                    outbox' = Append(outbox,
                        [chat_id |-> GROUP_CHAT_ID,
                         text |-> Announcement(rows[1].leetcode_username,
                                               submissions[1]),
                         ok |-> ok])
        /\ (UpdateStep /\ rows[1].last_timestamp > 0 /\ raised' = "none")
           => /\ outbox' = outbox
              /\ users' = Advanced(rows[1].telegram_id,
                                   IntOf(submissions[1].timestamp))
      ]_vars

NotifyWitness ==
    /\ pc = "update"
    /\ rows[1].last_timestamp > 0
    /\ users[rows[1].telegram_id] # NoRow
    /\ outbox # <<>>
    /\ outbox[Len(outbox)].text
          = Announcement(rows[1].leetcode_username, submissions[1])

\* The owner and the timestamp of the notification a send step is about.
SendOwner == rows[1].telegram_id

SendTs == IntOf(submissions[1].timestamp)

WatermarkMonotone ==
    [][ \A o \in Owners :
          (users[o] # NoRow /\ users'[o] # NoRow)
          => /\ users'[o].last_timestamp >= users[o].last_timestamp
             /\ users'[o].last_timestamp # users[o].last_timestamp
                => UpdateStep /\ rows[1].telegram_id = o
      ]_vars

\* A row that was advanced past its first observation is about to be
\* compared with an older record.
WatermarkWitness ==
    /\ pc = "fetch"
    /\ users[rows[1].telegram_id] # NoRow
    /\ users[rows[1].telegram_id].last_timestamp > 1
    /\ ext[rows[1].leetcode_username] > 0
    /\ ext[rows[1].leetcode_username]
          < users[rows[1].telegram_id].last_timestamp

\* C5 (fetch-failure isolation): a fetch that returns [] raises nothing and
\* changes no row, and the pass goes on to the next record of the snapshot;
\* a pass ends without an exception only after the last record.
FetchFailureIsolated ==
    [][ /\ (FetchStep /\ submissions' = <<>>)
           => /\ raised' = "none"
              /\ users' = users
              /\ outbox' = outbox
              /\ IF Len(rows) > 1
                 THEN pc' = "fetch" /\ rows' = Tail(rows)
                 ELSE pc' = "idle"
        /\ (pc # "idle" /\ pc' = "idle" /\ raised' = "none")
           => Len(rows) = 1
      ]_vars

\* A pass notified one account and then had the fetch of its last account
\* return [], and ended normally.
FetchFailureWitness ==
    /\ pc = "idle"
    /\ raised = "none"
    /\ outbox # <<>>
    /\ submissions = <<>>

\* C6 (notification-failure policy): a send_message that raises is followed
\* by the UPDATE of the same record, which sets last_timestamp to the fetched
\* timestamp and goes on to the next record; and the pass after an
\* undisturbed pass with a failed delivery sends nothing.
NotificationFailurePolicy ==
    [][ /\ (SendStep /\ outbox' # outbox /\ ~outbox'[Len(outbox')].ok)
           => /\ pc' = "update"
              /\ raised' = "none"
              /\ rows' = rows
              /\ submissions' = submissions
        /\ (UpdateStep /\ rows[1].last_timestamp > 0 /\ outbox # <<>>
              /\ ~outbox[Len(outbox)].ok /\ raised' = "none")
           => /\ users' = Advanced(rows[1].telegram_id,
                                   IntOf(submissions[1].timestamp))
              /\ IF Len(rows) > 1
                 THEN pc' = "fetch" /\ rows' = Tail(rows)
                 ELSE pc' = "idle"
        /\ prev' = "d" => (outbox' = <<>> /\ pc' # "send")
      ]_vars

\* The pass after a pass with a failed delivery has fetched a record and
\* ended without sending.
NotificationFailureWitness ==
    /\ prev = "d"
    /\ pc = "idle"
    /\ raised = "none"
    /\ submissions # <<>>
    /\ outbox = <<>>

\* A pass that sends nothing and writes nothing.
QuietStep ==
    /\ users' = users
    /\ outbox' = <<>>
    /\ pc' \notin {"send", "update"}

\* C7 as stated (idempotence): when no command ran and no external record
\* changed since the snapshot of the previous pass, which ran to its end,
\* the pass sends nothing and leaves the table as it was.
IdempotentWhenUnchanged ==
    [][ prev' \in {"c", "d", "f"} => QuietStep ]_vars

\* C7 amended: the same, provided every fetch of the previous pass got the
\* account's record (none failed).
IdempotentPasses ==
    [][ prev' \in {"c", "d"} => QuietStep ]_vars

\* The second of two such passes has fetched a record and ended.
IdempotentWitness ==
    /\ prev = "c"
    /\ pc = "idle"
    /\ raised = "none"
    /\ submissions # <<>>
    /\ IntOf(submissions[1].timestamp) > 0

\* C8 (no-change law): when the fetched timestamp equals the record's
\* last_timestamp, nothing is sent and no row is written.
NoChangeLaw ==
    [][ (FetchStep /\ Fetched /\ FetchedTs = rows[1].last_timestamp)
        => /\ pc' \notin {"send", "update"}
           /\ raised' = "none"
           /\ outbox' = outbox
           /\ users' = users
      ]_vars

\* A pass over one account fetched the timestamp the row holds and ended.
NoChangeWitness ==
    /\ pc = "idle"
    /\ raised = "none"
    /\ outbox = <<>>
    /\ submissions # <<>>
    /\ IntOf(submissions[1].timestamp) > 0
    /\ \E o \in Owners :
          /\ users[o] # NoRow
          /\ users[o].last_timestamp = IntOf(submissions[1].timestamp)
          /\ ext[users[o].leetcode_username] = users[o].last_timestamp

\* C9 (re-registration preserves the watermark): a command step that changes
\* an existing row changes only its leetcode_username, and a command step
\* that creates a row gives it last_timestamp 0.
ReRegistrationKeepsWatermark ==
    [][ \A o \in Owners :
          (users'[o] # users[o] /\ users'[o] # NoRow /\ ~UpdateStep)
          => /\ users'[o].leetcode_username \in Names
             /\ users'[o].last_timestamp
                   = IF users[o] = NoRow THEN 0
                     ELSE users[o].last_timestamp
      ]_vars

\* During a pass an owner re-registered under another name: the row has the
\* name the snapshot does not have and the positive last_timestamp it has.
ReRegistrationWitness ==
    /\ pc = "fetch"
    /\ users[rows[1].telegram_id] # NoRow
    /\ users[rows[1].telegram_id].leetcode_username
          # rows[1].leetcode_username
    /\ rows[1].last_timestamp > 0
    /\ users[rows[1].telegram_id].last_timestamp = rows[1].last_timestamp

\* C10 (only post-registration activity is announced): a pass decides to
\* notify about a row (one that is in the table as the snapshot has it) only
\* if an earlier pass observed a record of that row's account.
FirstRecordSilent ==
    [][ (FetchStep /\ pc' = "send"
           /\ users[rows[1].telegram_id]
                 = [leetcode_username |-> rows[1].leetcode_username,
                    last_timestamp |-> rows[1].last_timestamp])
        => seen[rows[1].telegram_id] ]_vars

\* C11 (failure isolation for registry writes): when the UPDATE of a record
\* raises, the pass goes on to the next record of its snapshot (and ends only
\* if that record was the last).
UpdateFailureIsolated ==
    [][ (UpdateStep /\ raised' = "update")
        => IF Len(rows) > 1
           THEN pc' = "fetch" /\ rows' = Tail(rows)
           ELSE pc' = "idle"
      ]_vars

\* C12 (a missing or unparseable timestamp is treated as 0): when the fetched
\* record has no timestamp entry, or one that is no integer literal, the pass
\* sends nothing and writes nothing for that record and goes on to the next
\* record of its snapshot.
BadTimestampTreatedAsZero ==
    [][ (FetchStep /\ submissions' # <<>>
           /\ submissions'[1].timestamp.k # "str")
        => /\ users' = users
           /\ outbox' = outbox
           /\ IF Len(rows) > 1
              THEN pc' = "fetch" /\ rows' = Tail(rows)
              ELSE pc' = "idle"
      ]_vars

\* C13 (notify-then-advance ordering): whenever a pass stands before the
\* UPDATE of a record whose last_timestamp is not 0, the last send_message of
\* the pass was the attempt (delivered or not) to announce that record's
\* fetched submission; and the step that writes the fetched timestamp into
\* the row is that UPDATE step, never the fetch or the send.
NotifyThenAdvance ==
    [][ /\ (pc' = "update" /\ rows'[1].last_timestamp # 0)
           => /\ outbox' # <<>>
              /\ outbox'[Len(outbox')].text
                    = Announcement(rows'[1].leetcode_username,
                                   submissions'[1])
        /\ (FetchStep \/ SendStep) => users' = users
      ]_vars

\* A pass stands before the UPDATE after a notification that was not
\* delivered, the row still at the snapshot's last_timestamp.
NotifyThenAdvanceWitness ==
    /\ pc = "update"
    /\ rows[1].last_timestamp # 0
    /\ outbox # <<>>
    /\ ~outbox[Len(outbox)].ok
    /\ users[rows[1].telegram_id] # NoRow
    /\ users[rows[1].telegram_id].last_timestamp = rows[1].last_timestamp

\* A step of poll_job: only they change its position, locals or messages.
PollStep ==
    <<pc, rows, submissions, outbox, raised>>'
        # <<pc, rows, submissions, outbox, raised>>

\* C14 (a pass only advances watermarks of existing rows): a step of poll_job
\* creates no row, deletes no row and changes no leetcode_username; the
\* UPDATE for an owner whose row was removed during the pass changes nothing.
PassOnlyAdvances ==
    [][ PollStep
        => /\ \A o \in Owners :
                /\ (users'[o] = NoRow) = (users[o] = NoRow)
                /\ users'[o].leetcode_username = users[o].leetcode_username
           /\ (UpdateStep /\ users[rows[1].telegram_id] = NoRow)
              => users' = users
      ]_vars

\* A pass stands before the UPDATE for an owner whose row has been removed.
PassOnlyAdvancesWitness ==
    /\ pc = "update"
    /\ users[rows[1].telegram_id] = NoRow
    /\ Len(rows) > 1

\* C15 (a fetch yielding no record changes nothing for that account): when
\* get_recent_submission returns [] for a record, the pass leaves the owner's
\* row as it is, sends nothing, and is done with that record: it stands
\* neither before a send nor before an UPDATE for it.
EmptyFetchChangesNothing ==
    [][ (FetchStep /\ submissions' = <<>>)
        => /\ users'[rows[1].telegram_id] = users[rows[1].telegram_id]
           /\ outbox' = outbox
           /\ pc' \notin {"send", "update"}
      ]_vars

\* A pass over one registered account with a positive last_timestamp ended
\* after a fetch that returned [] although the account has a newer record.
EmptyFetchWitness ==
    /\ pc = "idle"
    /\ raised = "none"
    /\ submissions = <<>>
    /\ outbox = <<>>
    /\ \E o \in Owners :
          /\ Registered = {o}
          /\ users[o].last_timestamp > 0
          /\ ext[users[o].leetcode_username] > users[o].last_timestamp

\* C16 (a failing snapshot read aborts the pass cleanly): the step in which
\* the SELECT raises fetches nothing, sends nothing and writes no row, and
\* leaves poll_job idle, which is all the next tick needs to start a pass.
SnapshotFailureAborts ==
    [][ (PollStep /\ raised' = "select")
        => /\ users' = users
           /\ pc' = "idle"
           /\ rows' = <<>>
           /\ submissions' = <<>>
           /\ outbox' = <<>>
      ]_vars

\* The SELECT of the last pass raised while two rows, one of them with a
\* positive last_timestamp and a newer record to announce, were in the table.
SnapshotFailureWitness ==
    /\ raised = "select"
    /\ Registered = Owners
    /\ \E o \in Owners :
          /\ users[o].last_timestamp > 0
          /\ ext[users[o].leetcode_username] > users[o].last_timestamp

\* C17 (sentinel invariant): every row's last_timestamp is >= 0; the value a
\* pass writes is the fetched timestamp, which is greater than the snapshot's
\* last_timestamp and so never 0; a row that stays in the table never goes
\* back to 0, and a row that shows 0 after a step that changed it was created
\* by a command in that step.
SentinelInvariant ==
    [][ /\ \A o \in Owners :
              users'[o] # NoRow => users'[o].last_timestamp >= 0
        /\ (UpdateStep /\ raised' = "none")
           => /\ IntOf(submissions[1].timestamp) > rows[1].last_timestamp
              /\ IntOf(submissions[1].timestamp) > 0
              /\ users' = Advanced(rows[1].telegram_id,
                                   IntOf(submissions[1].timestamp))
        /\ \A o \in Owners :
              (users'[o] # NoRow /\ users'[o].last_timestamp = 0
                 /\ users'[o] # users[o])
              => /\ ~PollStep
                 /\ users[o] = NoRow \/ users[o].last_timestamp = 0
      ]_vars

\* A pass over a single row with last_timestamp 0 fetched a record without a
\* timestamp entry and ended: the row still has 0.
SentinelWitness ==
    /\ pc = "idle"
    /\ raised = "none"
    /\ submissions # <<>>
    /\ submissions[1].timestamp.k = "absent"
    /\ \E o \in Owners :
          /\ Registered = {o}
          /\ users[o].last_timestamp = 0
          /\ ext[users[o].leetcode_username] > 0

\* C18 (race on a stale snapshot): the UPDATE of a pass changes a row only if
\* that row was in the table when the pass took its snapshot; a row created
\* since (it has last_timestamp 0 where the snapshot has a positive value) is
\* left at 0.
StaleSnapshotNeverWrites ==
    [][ (UpdateStep /\ users' # users)
        => users[rows[1].telegram_id].last_timestamp
              = rows[1].last_timestamp
      ]_vars

\* C19 (no notification for unregistered or renamed accounts): when a pass
\* sends the notification naming the account of its record, the table holds
\* a row for the record's owner with that account name.
NotifiesOnlyRegistered ==
    [][ SendStep
        => users[rows[1].telegram_id].leetcode_username
              = rows[1].leetcode_username
      ]_vars

====
